---- MODULE Spec2Model ----
(***************************************************************************)
(* A model of src/src/com/facebook/buck/parser/buck.py: the build file     *)
(* processor (BuildFileProcessor and the functions it provides to build    *)
(* files), symlink_aware_walk, and the glob engines glob_walk/glob_match.  *)
(*                                                                         *)
(* Strings of the program (paths, include names, glob tokens, file names)  *)
(* are sequences of one-character strings, so that prefix tests, slices    *)
(* and shell-pattern matching are computed, not assumed.                   *)
(***************************************************************************)
EXTENDS Integers, Sequences, FiniteSets, TLC

(***************************************************************************)
(* Bounds of the model.                                                    *)
(***************************************************************************)
\* Statements revealed over all files together.
MaxStmts == 3
\* Calls of BuildFileProcessor.process made by the driver.
MaxCalls == 2
\* Nested _process calls the interpreter allows before it raises
\* "maximum recursion depth exceeded".
MaxNest == 3

VARIABLES
    \* ---- the inputs of the processor ----
    files,        \* text of each file, revealed statement by statement
    closed,       \* whether the end of a file's text has been revealed
    implicit,     \* BuildFileProcessor._implicit_includes
    \* ---- BuildFileProcessor ----
    cache,        \* self._cache: path -> evaluation (0: no entry)
    envStack,     \* self._build_env_stack
    funcEnv,      \* LazyBuildEnvPartial.build_env of every build function
    evals,        \* the contexts and modules created so far
    callStack,    \* the _process calls in progress
    outcome,      \* how the last call of process() ended
    calls,        \* number of process() calls made
    returned,     \* the list the last process() call returned, if it did
    ruleArg,      \* the rule dictionary of the last add_rule call, after it
    \* ---- history ----
    execStarted,  \* path -> number of times exec() of its body began
    execDone,     \* path -> number of times exec() of its body returned
    log,          \* one entry per return of an include (explicit or implicit)
    \* ---- the file system ----
    fs,           \* the entries of the tree: real position -> entry
    base,         \* the directory a walk or a glob starts from
    \* ---- symlink_aware_walk ----
    walkState,    \* "start", "walking", "done", or "diverged"
    walkStack,    \* the os.walk calls in progress: directory, names left
    visited_dirs, \* the local visited_dirs
    walkYielded,  \* the directories yielded so far, in order
    \* ---- glob_match ----
    matchArgs,    \* pattern, path and include_dotfiles of the call
    matchResult,  \* whether glob_match returned, and what
    \* ---- glob and glob_walk ----
    globArgs,     \* includes, excludes and include_dotfiles of the call
    globState,    \* "start", "walk", "walking", "done", "error", "reentered"
    globIndex,    \* the include pattern the for loop of glob is at
    globStack,    \* the glob_walk_internal calls in progress
    visited,      \* the visited set of the glob_walk in progress
    walkOut,      \* the paths the glob_walk in progress has yielded
    paths,        \* the local paths of glob
    globResult,   \* the list glob returned
    globEarlier   \* the lists earlier calls with the same arguments returned

procVars == <<files, closed, implicit, cache, envStack, funcEnv, evals,
              callStack, outcome, calls, returned, ruleArg, execStarted,
              execDone, log>>

fsVars == <<fs, base>>
walkVars == <<walkState, walkStack, visited_dirs, walkYielded>>

matchVars == <<matchArgs, matchResult>>

globVars == <<globArgs, globState, globIndex, globStack, visited, walkOut,
              paths, globResult, globEarlier>>

vars == <<procVars, fsVars, walkVars, matchVars, globVars>>

\* The parts of the state a specification leaves alone stay as they begin.
FsIdle == fs = <<>> /\ base = <<>>

WalkIdle ==
    /\ walkState = "idle"
    /\ walkStack = <<>>
    /\ visited_dirs = {}
    /\ walkYielded = <<>>

MatchIdle ==
    /\ matchArgs = [pattern |-> <<>>, path |-> <<>>, include_dotfiles |-> FALSE]
    /\ matchResult = [returned |-> FALSE, value |-> FALSE]

GlobIdle ==
    /\ globArgs = [includes |-> <<>>, excludes |-> <<>>,
                   include_dotfiles |-> FALSE]
    /\ globState = "idle"
    /\ globIndex = 0
    /\ globStack = <<>>
    /\ visited = {}
    /\ walkOut = {}
    /\ paths = {}
    /\ globResult = <<>>
    /\ globEarlier = <<>>

(***************************************************************************)
(* Strings.                                                                *)
(***************************************************************************)
StartsWith(s, prefix) ==
    /\ Len(s) >= Len(prefix)
    /\ SubSeq(s, 1, Len(prefix)) = prefix

\* s[:n] and s[n:] of Python, for n >= 0; s[:-n] is Slice(s, Len(s) - n).
Take(s, n) == IF n <= 0 THEN <<>> ELSE SubSeq(s, 1, IF n < Len(s) THEN n ELSE Len(s))
Drop(s, n) == IF n >= Len(s) THEN <<>> ELSE SubSeq(s, n + 1, Len(s))

Last(s) == s[Len(s)]
Front(s) == SubSeq(s, 1, Len(s) - 1)

\* Index of the last "/" of s, 0 when there is none.
LastSlash(s) ==
    LET at == {i \in 1..Len(s) : s[i] = "/"}
    IN IF at = {} THEN 0 ELSE CHOOSE i \in at : \A j \in at : j <= i

\* os.path.dirname of a path relative to the project root.
Dirname(path) == Take(path, LastSlash(path) - 1)

\* ord(c) of the characters used.
Ord(c) ==
    CASE c = "!" -> 33 [] c = "*" -> 42 [] c = "." -> 46 [] c = "/" -> 47
      [] c = "?" -> 63 [] c = "B" -> 66 [] c = "C" -> 67 [] c = "K" -> 75
      [] c = "U" -> 85 [] c = "[" -> 91 [] c = "]" -> 93 [] c = "a" -> 97
      [] c = "b" -> 98 [] c = "c" -> 99 [] c = "d" -> 100 [] c = "p" -> 112
      [] c = "y" -> 121

RECURSIVE StrLess(_, _)
\* s < t of Python strings.
StrLess(s, t) ==
    IF t = <<>> THEN FALSE
    ELSE IF s = <<>> THEN TRUE
    ELSE IF s[1] = t[1] THEN StrLess(Tail(s), Tail(t))
    ELSE Ord(s[1]) < Ord(t[1])

RECURSIVE SortPaths(_)
\* paths.sort()
SortPaths(S) ==
    IF S = {} THEN <<>>
    ELSE LET least == CHOOSE x \in S : \A y \in S \ {x} : StrLess(x, y)
         IN <<least>> \o SortPaths(S \ {least})

(***************************************************************************)
(* The files of the project.  A path stands for os.path.join(project_root, *)
(* path); every path here is relative, so the join never drops the root.   *)
(***************************************************************************)
BUILD_RULES_FILE_NAME == <<"B", "U", "C", "K">>
RootBuck == BUILD_RULES_FILE_NAME
SubBuck == <<"a", "/">> \o BUILD_RULES_FILE_NAME
Defs == <<"d">>
FilePaths == {RootBuck, SubBuck, Defs}

RootMarker == <<"/", "/">>
\* The names passed to include_defs: a file under the root marker.
IncludeNames == {RootMarker \o p : p \in FilePaths}
\* A name without the root marker; without its first two characters it is
\* the name of a file.
BadIncludeName == SubBuck

\* The run-wide implicit includes a processor may be built with.
ImplicitChoices == {<<>>, <<RootMarker \o Defs>>, <<RootMarker \o Defs, RootMarker \o SubBuck>>}

(***************************************************************************)
(* Namespaces: the globals of a module.                                    *)
(***************************************************************************)
IncludeDefsName == <<"i", "n", "c", "l", "u", "d", "e", "_", "d", "e", "f", "s">>
GlobName == <<"g", "l", "o", "b">>
PublicVar == <<"x">>
PrivateVar == <<"_", "p">>
VarNames == {PublicVar, PrivateVar}
NsNames == {IncludeDefsName, GlobName} \cup VarNames

Undef == [k |-> "undef", path |-> <<>>]
PrimValue == [k |-> "prim", path |-> <<>>]
PartialValue == [k |-> "partial", path |-> <<>>]
FileValue(path) == [k |-> "val", path |-> path]

\* _install_functions and the include_defs partial of _process.
DefaultGlobals ==
    [n \in NsNames |->
        IF n = IncludeDefsName THEN PartialValue
        ELSE IF n = GlobName THEN PrimValue
        ELSE Undef]

\* A merge that copies every binding of src but include_defs.
MergeAllButIncludeDefs(src, dst) ==
    [n \in NsNames |->
        IF src[n].k # "undef" /\ n \notin {IncludeDefsName} THEN src[n] ELSE dst[n]]

\* BuildFileProcessor._merge_globals(src, dst): the value of dst afterwards.
MergeGlobals(src, dst) ==
    [n \in NsNames |->
        IF src[n].k # "undef" /\ ~StartsWith(n, <<"_">>) /\ n \notin {IncludeDefsName}
        THEN src[n]
        ELSE dst[n]]

\* The bindings _merge_globals copies out of a namespace.
PublicBindings(ns) == MergeGlobals(ns, [n \in NsNames |-> Undef])

(***************************************************************************)
(* Contexts.                                                               *)
(***************************************************************************)
BUILD_FILE == "build_file"
INCLUDE == "include"

RuleNames == {<<"a">>, <<"b">>}

\* What the 'deps' entry of a rule dictionary is: missing, a list, or a
\* value that is not a list (a tuple).
DepsKinds == {"absent", "list", "tuple"}
InitialDeps == <<"x">>

\* A rule dictionary: its 'deps' entry and its 'buck.base_path' entry
\* (stamped when the dictionary has one).  present tells the slot of a
\* registry that holds a dictionary from the slot that holds none.
RuleDict(depsKind) ==
    [present |-> TRUE, depsKind |-> depsKind,
     deps |-> IF depsKind = "absent" THEN <<>> ELSE InitialDeps,
     stamped |-> FALSE, base_path |-> <<>>]
NoRule ==
    [present |-> FALSE, depsKind |-> "absent", deps |-> <<>>,
     stamped |-> FALSE, base_path |-> <<>>]

\* One evaluation: the context object (type, base_path, dirname, includes,
\* rules) together with the module whose globals are ns, and the implicit
\* includes its include_defs partial carries.
NewEval(type, base_path, path, impl) ==
    [type |-> type, base_path |-> base_path, dirname |-> Dirname(path),
     path |-> path, includes |-> {}, rules |-> [r \in RuleNames |-> NoRule],
     ns |-> DefaultGlobals, impl |-> impl]

\* _process_build_file: relative_path_to_build_file[:len_suffix]
BuildBasePath(path) == Take(path, Len(path) - Len(<<"/">> \o BUILD_RULES_FILE_NAME))

BuildFileContext(path, impl) == NewEval(BUILD_FILE, BuildBasePath(path), path, impl)
IncludeContext(path, impl) == NewEval(INCLUDE, path, path, impl)

(***************************************************************************)
(* BuildFileProcessor.                                                     *)
(***************************************************************************)
\* _get_include_path: the failure test and the resolved path.
\* A _get_include_path that takes every name.
AnyIncludeName(name) == TRUE
ValidIncludeName(name) == StartsWith(name, RootMarker)
GetIncludePath(name) == Drop(name, 2)

\* A _process that never finds its path in the cache.
CacheLookupMiss(path) == 0

\* _process, lines 534-536: the cached evaluation, 0 when there is none.
CacheLookup(path) == cache[path]

\* A _process that returns without storing its result.
CacheStoreNothing(path, ev) == cache

\* _process, line 578: self._cache[path] = build_env, module
CacheStore(path, ev) == [cache EXCEPT ![path] = ev]

\* A statement of a file: an operation, its name argument, and for a rule
\* what 'deps' attribute it is declared with.
Stmt(op, arg, flag) == [op |-> op, arg |-> arg, flag |-> flag]
NoFlag == "absent"

RECURSIVE TotalLen(_, _)
TotalLen(f, S) ==
    IF S = {} THEN 0
    ELSE LET p == CHOOSE q \in S : TRUE
         IN Len(f[p]) + TotalLen(f, S \ {p})

Top == callStack[Len(callStack)]
TopEval == evals[Top.ev]
TopPath == TopEval.path
InBody == callStack # <<>> /\ Top.ii > Len(TopEval.impl)

\* The statement the executing body is at is s: either text already
\* revealed, or a statement revealed now.
AtStmt(s) ==
    /\ InBody
    /\ \/ Top.pc <= Len(files[TopPath]) /\ files[TopPath][Top.pc] = s
       \/ /\ Top.pc = Len(files[TopPath]) + 1
          /\ ~closed[TopPath]
          /\ TotalLen(files, FilePaths) < MaxStmts
Reveal(s) ==
    IF Top.pc <= Len(files[TopPath]) THEN files
    ELSE [files EXCEPT ![TopPath] = Append(@, s)]

Bump(counter, path) == [counter EXCEPT ![path] = @ + 1]

\* An exception leaves every frame of the call: nothing is popped from
\* _build_env_stack and nothing is stored in the cache.
Raise(err) ==
    /\ callStack' = <<>>
    /\ outcome' = [kind |-> "error", err |-> err, ev |-> 0]
    /\ returned' = <<>>

\* _push_build_env and the start of a _process call that missed the cache.
Enter(eval) ==
    LET id == Len(evals) + 1 IN
    /\ evals' = Append(evals, eval)
    /\ envStack' = Append(envStack, id)
    /\ funcEnv' = id
    /\ callStack' = Append(callStack, [ev |-> id, ii |-> 1, pc |-> 1])
    /\ execStarted' = IF eval.impl = <<>> THEN Bump(execStarted, eval.path)
                      ELSE execStarted

\* A return that records the path of the included file and not the paths it
\* included.
ReceivedPathAlone(es, callerEv, envId, path, inner) ==
    [es EXCEPT
        ![callerEv].ns = MergeGlobals(es[inner].ns, @),
        ![envId].includes = @ \cup {path}]

\* The caller's frame and context after an include returned (inner, mod):
\* the merge of the module's globals and of the include set.
Received(es, callerEv, envId, path, inner) ==
    [es EXCEPT
        ![callerEv].ns = MergeGlobals(es[inner].ns, @),
        ![envId].includes = (@ \cup {path}) \cup es[inner].includes]

LogEntry(by, path, inner, hit) ==
    [by |-> evals[by].path, byEv |-> by, inc |-> path, ev |-> inner, hit |-> hit,
     bindings |-> PublicBindings(evals[inner].ns)]

\* build_env.rules.values(): the values of a Python 2 dictionary come in an
\* order the language leaves to the implementation; every order of the
\* registered names is one it may produce.
DictOrders(rules) ==
    LET S == {n \in RuleNames : rules[n].present}
        n == Cardinality(S)
    IN {o \in [1..n -> S] : \A i, j \in 1..n : o[i] = o[j] => i = j}

ManifestKey == <<"_", "_", "i", "n", "c", "l", "u", "d", "e", "s">>

\* A manifest that lists the path of the build file alone.
ManifestOfPathAlone(path, build_env) ==
    [key |-> ManifestKey, dict |-> NoRule, includes |-> <<path>>]
\* process, line 623: {"__includes": [path] + sorted(build_env.includes)}
Manifest(path, build_env) ==
    [key |-> ManifestKey, dict |-> NoRule,
     includes |-> <<path>> \o SortPaths(build_env.includes)]

\* process, lines 622-624: the rule dictionaries in the order values() gives
\* them, then the manifest.
ProcessValues(path, build_env, order) ==
    [i \in 1..Len(order) |->
        [key |-> order[i], dict |-> build_env.rules[order[i]],
         includes |-> <<>>]]
    \o <<Manifest(path, build_env)>>

\* BuildFileProcessor.process(path)
Process(p) ==
    /\ callStack = <<>>
    /\ calls < MaxCalls
    /\ calls' = calls + 1
    /\ LET cached == CacheLookup(p) IN
       IF cached # 0
       THEN /\ IF evals[cached].type = BUILD_FILE
               THEN /\ outcome' = [kind |-> "ok", err |-> "", ev |-> cached]
                    /\ \E order \in DictOrders(evals[cached].rules) :
                          returned' = ProcessValues(p, evals[cached], order)
               ELSE /\ outcome' = [kind |-> "error", err |-> "AttributeError",
                                   ev |-> 0]
                    /\ returned' = <<>>
            /\ UNCHANGED <<evals, envStack, funcEnv, callStack, execStarted>>
       ELSE /\ Enter(BuildFileContext(p, implicit))
            /\ outcome' = [kind |-> "running", err |-> "", ev |-> 0]
            /\ returned' = <<>>
    /\ UNCHANGED <<files, closed, implicit, cache, execDone, log, ruleArg>>

\* An include (path) asked for by the frame on top: _process_include and
\* _process up to the point where the file's body would start.
IncludeFile(path, impl, isImplicit) ==
    LET cached == CacheLookup(path)
        f == Top
        bodyStarts == isImplicit /\ f.ii = Len(TopEval.impl)
    IN
    IF cached # 0
    THEN /\ evals' = Received(evals, f.ev,
                              IF isImplicit THEN f.ev ELSE Last(envStack),
                              path, cached)
         /\ callStack' = [callStack EXCEPT ![Len(callStack)] =
                            IF isImplicit THEN [@ EXCEPT !.ii = @ + 1]
                            ELSE [@ EXCEPT !.pc = @ + 1]]
         /\ log' = Append(log, LogEntry(f.ev, path, cached, TRUE))
         /\ execStarted' = IF bodyStarts THEN Bump(execStarted, TopPath)
                           ELSE execStarted
         /\ UNCHANGED <<envStack, funcEnv, outcome, returned>>
    ELSE IF Len(callStack) >= MaxNest
    THEN /\ Raise("RuntimeError")
         /\ UNCHANGED <<evals, envStack, funcEnv, execStarted, log>>
    ELSE /\ Enter(IncludeContext(path, impl))
         /\ UNCHANGED <<outcome, returned, log>>

\* _process, lines 552-557: the next implicit include of the frame on top.
StepImplicit ==
    /\ callStack # <<>>
    /\ Top.ii <= Len(TopEval.impl)
    /\ LET name == TopEval.impl[Top.ii] IN
       IF ~ValidIncludeName(name)
       THEN /\ Raise("ValueError")
            /\ UNCHANGED <<evals, envStack, funcEnv, execStarted, log>>
       ELSE IncludeFile(GetIncludePath(name), <<>>, TRUE)
    /\ UNCHANGED <<files, closed, implicit, cache, calls, execDone, ruleArg>>

\* A statement include_defs(name) of the executing body: _include_defs.
ExecInclude(names) ==
    \E name \in names :
        LET s == Stmt("include", name, NoFlag) IN
        /\ AtStmt(s)
        /\ files' = Reveal(s)
        /\ IF ~ValidIncludeName(name)
           THEN /\ Raise("ValueError")
                /\ UNCHANGED <<evals, envStack, funcEnv, execStarted, log>>
           ELSE IncludeFile(GetIncludePath(name), TopEval.impl, FALSE)
        /\ UNCHANGED <<closed, implicit, cache, calls, execDone, ruleArg>>

\* A statement that binds a global name of the executing module.
ExecSet(names) ==
    \E v \in names :
        LET s == Stmt("set", v, NoFlag) IN
        /\ AtStmt(s)
        /\ files' = Reveal(s)
        /\ evals' = [evals EXCEPT ![Top.ev].ns[v] = FileValue(TopPath)]
        /\ callStack' = [callStack EXCEPT ![Len(callStack)].pc = @ + 1]
        /\ UNCHANGED <<closed, implicit, cache, envStack, funcEnv, outcome,
                       returned, calls, execStarted, execDone, log, ruleArg>>

\* A statement that fails while the body executes.
ExecFail ==
    LET s == Stmt("fail", <<>>, NoFlag) IN
    /\ AtStmt(s)
    /\ files' = Reveal(s)
    /\ Raise("EvaluationError")
    /\ UNCHANGED <<closed, implicit, cache, envStack, funcEnv, evals, calls,
                   execStarted, execDone, log, ruleArg>>

\* The type assertions that open add_rule, glob and add_deps.
AddRuleAllowed(build_env) == build_env.type = BUILD_FILE
\* A glob without its assertion.
GlobAllowedAnywhere(build_env) == TRUE
GlobAllowed(build_env) == build_env.type = BUILD_FILE
AddDepsAllowed(build_env) == build_env.type = BUILD_FILE

\* The build functions are called through LazyBuildEnvPartial.invoke, which
\* passes the build_env the partial is bound to at the time of the call.
BoundEnv == evals[funcEnv]

Advance ==
    callStack' = [callStack EXCEPT ![Len(callStack)].pc = @ + 1]

\* add_rule, lines 106-115: its tests on the dictionary and the registry,
\* and the dictionary and the registry after a call that passed them.
HasName(name) == name # <<>>
\* An add_rule that takes every name for a new one.
NeverDuplicate(build_env, name) == FALSE
IsDuplicate(build_env, name) == build_env.rules[name].present
\* An add_rule that stores the dictionary as it got it.
StampNothing(rule, build_env) == rule
Stamp(rule, build_env) ==
    [rule EXCEPT !.stamped = TRUE, !.base_path = build_env.base_path]
Register(rules, name, rule) == [rules EXCEPT ![name] = rule]

\* add_rule(rule, build_env), with the build_env the call is given by
\* LazyBuildEnvPartial.invoke.  The dictionary has a 'name' entry unless
\* name is empty.
AddRule(name, rule) ==
    IF ~AddRuleAllowed(BoundEnv)
    THEN /\ Raise("AssertionError")
         /\ ruleArg' = [name |-> name, dict |-> rule]
         /\ UNCHANGED evals
    ELSE IF ~HasName(name)
    THEN /\ Raise("ValueError")
         /\ ruleArg' = [name |-> name, dict |-> rule]
         /\ UNCHANGED evals
    ELSE IF IsDuplicate(BoundEnv, name)
    THEN /\ Raise("ValueError")
         /\ ruleArg' = [name |-> name, dict |-> rule]
         /\ UNCHANGED evals
    ELSE /\ evals' = [evals EXCEPT ![funcEnv].rules =
                         Register(@, name, Stamp(rule, BoundEnv))]
         /\ ruleArg' = [name |-> name, dict |-> Stamp(rule, BoundEnv)]
         /\ Advance
         /\ UNCHANGED <<outcome, returned>>

\* A rule function called by the executing body; the dictionary it builds
\* has the 'deps' entry the flag tells.
ExecRule ==
    \E name \in RuleNames \cup {<<>>}, depsKind \in DepsKinds :
        LET s == Stmt("rule", name, depsKind) IN
        /\ name = <<>> => depsKind = "absent"
        /\ AtStmt(s)
        /\ files' = Reveal(s)
        /\ AddRule(name, RuleDict(depsKind))
        /\ UNCHANGED <<closed, implicit, cache, envStack, funcEnv, calls,
                       execStarted, execDone, log>>

\* A statement that calls the global x of the executing module with a rule
\* name: when x is bound, to a function that a file defined and that declares
\* a rule of that name; a NameError when it is not.
ExecCall ==
    \E name \in RuleNames :
        LET s == Stmt("call", name, NoFlag) IN
        /\ AtStmt(s)
        /\ files' = Reveal(s)
        /\ IF TopEval.ns[PublicVar].k # "val"
           THEN Raise("NameError") /\ UNCHANGED <<evals, ruleArg>>
           ELSE AddRule(name, RuleDict("absent"))
        /\ UNCHANGED <<closed, implicit, cache, envStack, funcEnv, calls,
                       execStarted, execDone, log>>

\* The list add_deps is called with.
ExtraDeps == <<"y">>

\* add_deps, lines 414-419: its tests on the registered dictionary, and the
\* value line 419 computes; a tuple and a list do not add (TypeError).
DepsMissing(rule) == rule.depsKind = "absent"
\* An add_deps whose line 419 adds a list to any value.
DepsAnyValue(rule) == TRUE
DepsIsList(rule) == rule.depsKind = "list"
\* An add_deps that puts the new dependencies first.
ExtraFirst(deps, extra) == extra \o deps
ExtendDeps(deps, extra) == deps \o extra

\* add_deps(name, deps) called by the executing body.
ExecAddDeps ==
    \E name \in RuleNames :
        LET s == Stmt("add_deps", name, NoFlag) IN
        /\ AtStmt(s)
        /\ files' = Reveal(s)
        /\ IF ~AddDepsAllowed(BoundEnv)
           THEN Raise("AssertionError") /\ UNCHANGED evals
           ELSE IF ~BoundEnv.rules[name].present
           THEN Raise("ValueError") /\ UNCHANGED evals
           ELSE IF DepsMissing(BoundEnv.rules[name])
           THEN Raise("ValueError") /\ UNCHANGED evals
           ELSE IF ~DepsIsList(BoundEnv.rules[name])
           THEN Raise("TypeError") /\ UNCHANGED evals
           ELSE /\ evals' = [evals EXCEPT ![funcEnv].rules[name].deps =
                                ExtendDeps(@, ExtraDeps)]
                /\ Advance
                /\ UNCHANGED <<outcome, returned>>
        /\ UNCHANGED <<closed, implicit, cache, envStack, funcEnv, calls,
                       execStarted, execDone, log, ruleArg>>

\* glob(includes, ...) called by the executing body: only its effect on the
\* processor, which is none when it returns.
ExecGlob ==
    LET s == Stmt("glob", <<>>, NoFlag) IN
    /\ AtStmt(s)
    /\ files' = Reveal(s)
    /\ IF ~GlobAllowed(BoundEnv)
       THEN Raise("AssertionError")
       ELSE Advance /\ UNCHANGED <<outcome, returned>>
    /\ UNCHANGED <<closed, implicit, cache, envStack, funcEnv, evals, calls,
                   execStarted, execDone, log, ruleArg>>

\* _pop_build_env: the stack and the binding of the build functions.
PopBuildEnv == Front(envStack)
\* A _pop_build_env that leaves the build functions bound as they are.
NoRebind(stack) == funcEnv
RebindAfterPop(stack) == IF stack # <<>> THEN Last(stack) ELSE funcEnv

\* The body of the file on top has run to its end: _process, lines 575-579,
\* then the rest of the caller (_include_defs, the implicit include loop of
\* _process, or process).
FinishFile ==
    /\ InBody
    /\ Top.pc = Len(files[TopPath]) + 1
    /\ closed' = [closed EXCEPT ![TopPath] = TRUE]
    /\ LET f == Top
           path == TopPath
           stack == PopBuildEnv
       IN
       /\ envStack' = stack
       /\ funcEnv' = RebindAfterPop(stack)
       /\ cache' = CacheStore(path, f.ev)
       /\ execDone' = Bump(execDone, path)
       /\ IF Len(callStack) = 1
          THEN /\ callStack' = <<>>
               /\ outcome' = [kind |-> "ok", err |-> "", ev |-> f.ev]
               /\ \E order \in DictOrders(evals[f.ev].rules) :
                     returned' = ProcessValues(path, evals[f.ev], order)
               /\ UNCHANGED <<evals, execStarted, log>>
          ELSE LET g == callStack[Len(callStack) - 1]
                   gImplicit == g.ii <= Len(evals[g.ev].impl)
                   envId == IF gImplicit THEN g.ev ELSE Last(stack)
               IN
               /\ evals' = Received(evals, g.ev, envId, path, f.ev)
               /\ callStack' = [Front(callStack) EXCEPT ![Len(callStack) - 1] =
                                  IF gImplicit THEN [@ EXCEPT !.ii = @ + 1]
                                  ELSE [@ EXCEPT !.pc = @ + 1]]
               /\ execStarted' =
                    IF gImplicit /\ g.ii = Len(evals[g.ev].impl)
                    THEN Bump(execStarted, evals[g.ev].path)
                    ELSE execStarted
               /\ log' = Append(log, LogEntry(g.ev, path, f.ev, FALSE))
               /\ UNCHANGED <<outcome, returned>>
    /\ UNCHANGED <<files, implicit, calls, ruleArg>>

InitProc ==
    /\ files = [p \in FilePaths |-> <<>>]
    /\ closed = [p \in FilePaths |-> FALSE]
    /\ implicit \in ImplicitChoices
    /\ cache = [p \in FilePaths |-> 0]
    /\ envStack = <<>>
    /\ funcEnv = 0
    /\ evals = <<>>
    /\ callStack = <<>>
    /\ outcome = [kind |-> "none", err |-> "", ev |-> 0]
    /\ calls = 0
    /\ returned = <<>>
    /\ ruleArg = [name |-> <<>>, dict |-> NoRule]
    /\ execStarted = [p \in FilePaths |-> 0]
    /\ execDone = [p \in FilePaths |-> 0]
    /\ log = <<>>

(***************************************************************************)
(* The file system.  A path is a sequence of names from the root of the    *)
(* tree; fs maps the real position of every entry to what is there: a      *)
(* plain file, a directory, or a symbolic link with the path it holds.     *)
(* The parent of every entry is a directory.                               *)
(***************************************************************************)
\* Entries of a tree.
MaxEntries == 3

FileEntry == [kind |-> "file", target |-> <<>>]
DirEntry == [kind |-> "dir", target |-> <<>>]
LinkEntry(target) == [kind |-> "link", target |-> target]

NameA == <<"a">>
NameB == <<"b">>
NameHidden == <<".", "a">>
CurDir == <<".">>

\* The positions of a tree over names: the paths of one or two names.
Positions(names) ==
    {<<n>> : n \in names} \cup {<<n, m>> : n \in names, m \in names}

WellFormedTree(f) ==
    \A pos \in DOMAIN f :
        Len(pos) > 1 => /\ Front(pos) \in DOMAIN f
                        /\ f[Front(pos)].kind = "dir"

\* The trees over names with at most n entries; a link holds one of the
\* paths targets, whether or not something is there.
Trees(names, targets, n) ==
    LET entries == {FileEntry, DirEntry} \cup {LinkEntry(q) : q \in targets}
        shapes == {S \in SUBSET Positions(names) :
                      /\ S # {}
                      /\ Cardinality(S) <= n
                      /\ \A pos \in S : Len(pos) > 1 => Front(pos) \in S}
    IN UNION {{f \in [S -> entries] : WellFormedTree(f)} : S \in shapes}

IsLinkAt(pos) == pos \in DOMAIN fs /\ fs[pos].kind = "link"

\* os.path.realpath, as posixpath._joinrealpath computes it: path is the
\* part resolved so far, rest the names still to resolve, active the links
\* whose own resolution is in progress.  ok is FALSE on a symlink loop.
RECURSIVE JoinRealPath(_, _, _)
JoinRealPath(path, rest, active) ==
    IF rest = <<>> THEN [ok |-> TRUE, path |-> path]
    ELSE LET name == Head(rest)
             newpath == path \o <<name>>
         IN IF name = CurDir THEN JoinRealPath(path, Tail(rest), active)
            ELSE IF ~IsLinkAt(newpath)
            THEN JoinRealPath(newpath, Tail(rest), active)
            ELSE IF newpath \in active
            THEN [ok |-> FALSE, path |-> newpath \o Tail(rest)]
            ELSE LET r == JoinRealPath(<<>>, fs[newpath].target,
                                       active \cup {newpath})
                 IN IF ~r.ok THEN [ok |-> FALSE, path |-> r.path \o Tail(rest)]
                    ELSE JoinRealPath(r.path, Tail(rest), active)

RealPath(path) == JoinRealPath(<<>>, path, {}).path

\* What os.stat finds at a path: "dir", "file", or "none" (nothing there, a
\* dangling link, or a loop of links).
StatKind(path) ==
    LET r == JoinRealPath(<<>>, path, {}) IN
    IF ~r.ok THEN "none"
    ELSE IF r.path = <<>> THEN "dir"
    ELSE IF r.path \in DOMAIN fs THEN fs[r.path].kind
    ELSE "none"

IsDir(path) == StatKind(path) = "dir"
IsFile(path) == StatKind(path) = "file"

\* os.path.islink and os.path.lexists: the last name is not followed.
IsLink(path) ==
    /\ path # <<>>
    /\ Last(path) # CurDir
    /\ IsDir(Front(path))
    /\ IsLinkAt(RealPath(Front(path)) \o <<Last(path)>>)
LExists(path) ==
    IF path = <<>> THEN TRUE
    ELSE IF Last(path) = CurDir THEN IsDir(Front(path))
    ELSE /\ IsDir(Front(path))
         /\ RealPath(Front(path)) \o <<Last(path)>> \in DOMAIN fs

\* os.listdir: the names in a directory (none when path is no directory).
ListDir(path) ==
    IF ~IsDir(path) THEN {}
    ELSE LET real == RealPath(path) IN
         {pos[Len(pos)] : pos \in {q \in DOMAIN fs : Front(q) = real}}

\* The directories of the tree that are no links: the canonical ones.
RealDirs == {<<>>} \cup {pos \in DOMAIN fs : fs[pos].kind = "dir"}

RECURSIVE JoinNames(_)
\* The string of a path: "/" before every name.
JoinNames(path) ==
    IF path = <<>> THEN <<>>
    ELSE <<"/">> \o Head(path) \o JoinNames(Tail(path))

(***************************************************************************)
(* symlink_aware_walk.                                                     *)
(***************************************************************************)
RECURSIVE MaxLen(_)
MaxLen(S) ==
    IF S = {} THEN 0
    ELSE LET p == CHOOSE q \in S : TRUE
             m == MaxLen(S \ {p})
         IN IF Len(p) > m THEN Len(p) ELSE m

\* A depth no terminating walk reaches.  Below depth d (the longest
\* canonical path) whether a path starts with a canonical path is fixed by
\* its first d names; from there on a canonical directory the paths start
\* with is yielded at most once on a branch, so among more than n + (n+1)*n
\* further directories (n canonical directories) some directory repeats with
\* only directories between that are never cut off: the branch goes round
\* that cycle for ever.
WalkDepthLimit ==
    LET n == Cardinality(RealDirs) IN MaxLen(RealDirs) + n + (n + 1) * n

\* os.walk: the subdirectories of a directory, links to directories included.
SubDirs(path) == {n \in ListDir(path) : IsDir(path \o <<n>>)}

\* The loop body of symlink_aware_walk for the directory os.walk is at.
WalkCut(root) ==
    /\ RealPath(root) \in visited_dirs
    /\ StartsWith(JoinNames(root), JoinNames(RealPath(root)))

\* os.walk returns from every call that has no subdirectory left.
RECURSIVE Unwind(_)
Unwind(stack) ==
    IF stack = <<>> THEN stack
    ELSE IF Last(stack).dirs = {} THEN Unwind(Front(stack))
    ELSE stack

\* One iteration of the for loop: os.walk moves to directory root, and the
\* body cuts it off or yields it.
WalkVisit(root, stack) ==
    IF Len(root) > WalkDepthLimit
    THEN /\ walkState' = "diverged"
         /\ walkStack' = stack
         /\ UNCHANGED <<visited_dirs, walkYielded>>
    ELSE LET cut == WalkCut(root)
             after == Unwind(Append(stack,
                         [top |-> root,
                          dirs |-> IF cut THEN {} ELSE SubDirs(root)]))
         IN /\ walkStack' = after
            /\ walkState' = IF after = <<>> THEN "done" ELSE "walking"
            /\ visited_dirs' = IF cut THEN visited_dirs
                               ELSE visited_dirs \cup {RealPath(root)}
            /\ walkYielded' = IF cut THEN walkYielded
                              ELSE Append(walkYielded, root)

\* The first directory of the walk: base.
WalkStart ==
    /\ walkState = "start"
    /\ WalkVisit(base, <<>>)
    /\ UNCHANGED <<fsVars, procVars, matchVars, globVars>>

\* The next directory: a subdirectory of the innermost os.walk call, in
\* whatever order os.listdir gave them.
WalkNext ==
    /\ walkState = "walking"
    /\ \E name \in Last(walkStack).dirs :
          WalkVisit(Last(walkStack).top \o <<name>>,
                    [walkStack EXCEPT ![Len(walkStack)].dirs = @ \ {name}])
    /\ UNCHANGED <<fsVars, procVars, matchVars, globVars>>

WalkNames == {NameA, NameB}

InitWalk ==
    /\ InitProc /\ implicit = <<>>
    /\ fs \in Trees(WalkNames, Positions(WalkNames) \cup {<<>>}, MaxEntries)
    /\ base \in RealDirs
    /\ walkState = "start"
    /\ walkStack = <<>>
    /\ visited_dirs = {}
    /\ walkYielded = <<>>
    /\ MatchIdle /\ GlobIdle

NextWalk == WalkStart \/ WalkNext

SpecWalk == InitWalk /\ [][NextWalk]_vars

(***************************************************************************)
(* glob_match.  A pattern and a path are strings; "/" separates the tokens *)
(* of the one and the chunks of the other.                                 *)
(***************************************************************************)
\* Tokens of a pattern and chunks of a path the calls are drawn from.
MaxTokens == 2
MaxChunks == 3

\* glob.has_magic: the string holds one of * ? [
HasMagic(s) == \E i \in 1..Len(s) : s[i] \in {"*", "?", "["}

RECURSIVE SplitPath(_)
\* split_path: str.split('/'), the empty string gives one empty element.
SplitPath(s) ==
    LET at == {i \in 1..Len(s) : s[i] = "/"} IN
    IF at = {} THEN <<s>>
    ELSE LET i == CHOOSE k \in at : \A j \in at : k <= j
         IN <<Take(s, i - 1)>> \o SplitPath(Drop(s, i))

\* well_formed_tokens: no token is empty.
WellFormedTokens(tokens) == \A i \in 1..Len(tokens) : tokens[i] # <<>>

RECURSIVE JoinPath(_)
\* '/'.join(elements).
JoinPath(elements) ==
    IF elements = <<>> THEN <<>>
    ELSE IF Len(elements) = 1 THEN elements[1]
    ELSE elements[1] \o <<"/">> \o JoinPath(Tail(elements))

\* fnmatch.translate at a "[": r is the pattern after it; the index in r of
\* the "]" that closes the class, 0 when nothing closes it.
ClassEnd(r) ==
    LET j1 == IF Len(r) >= 1 /\ r[1] = "!" THEN 2 ELSE 1
        j2 == IF Len(r) >= j1 /\ r[j1] = "]" THEN j1 + 1 ELSE j1
        at == {k \in j2..Len(r) : r[k] = "]"}
    IN IF at = {} THEN 0 ELSE CHOOSE k \in at : \A j \in at : k <= j

\* Whether the class with the text stuff, "!" first negating it, holds c.
InClass(c, stuff) ==
    IF stuff[1] = "!" THEN \A i \in 2..Len(stuff) : stuff[i] # c
    ELSE \E i \in 1..Len(stuff) : stuff[i] = c

FnMatchLiteral(name, pat) == name = pat

RECURSIVE FnMatch(_, _)
\* fnmatch.fnmatch(name, pat): the regular expression fnmatch.translate
\* makes of pat matches the whole of name.
FnMatch(name, pat) ==
    IF pat = <<>> THEN name = <<>>
    ELSE LET c == Head(pat)
             r == Tail(pat)
         IN IF c = "*" THEN \E k \in 0..Len(name) : FnMatch(Drop(name, k), r)
            ELSE IF c = "?" THEN name # <<>> /\ FnMatch(Tail(name), r)
            ELSE IF c = "[" /\ ClassEnd(r) # 0
            THEN /\ name # <<>>
                 /\ InClass(Head(name), Take(r, ClassEnd(r) - 1))
                 /\ FnMatch(Tail(name), Drop(r, ClassEnd(r)))
            ELSE name # <<>> /\ Head(name) = c /\ FnMatch(Tail(name), r)

StarStar == <<"*", "*">>

StartsWithDotNever(chunk) == FALSE

\* chunk and chunk[0] == '.'
StartsWithDot(chunk) == chunk # <<>> /\ chunk[1] = "."

RECURSIVE glob_match_internal(_, _, _)
glob_match_internal(include_dotfiles, tokens, chunks) ==
    IF tokens = <<>> THEN chunks = <<>>
    ELSE LET token == Head(tokens)
             next_tokens == Tail(tokens)
         IN IF chunks = <<>>
            THEN /\ token = StarStar
                 /\ glob_match_internal(include_dotfiles, next_tokens, chunks)
            ELSE LET chunk == Head(chunks)
                     next_chunks == Tail(chunks)
                 IN IF ~HasMagic(token)
                    THEN /\ token = chunk
                         /\ glob_match_internal(include_dotfiles, next_tokens,
                                                next_chunks)
                    ELSE IF token = StarStar
                    THEN \/ glob_match_internal(include_dotfiles, next_tokens,
                                                chunks)
                         \/ /\ ~(~include_dotfiles /\ StartsWithDot(chunk))
                            /\ glob_match_internal(include_dotfiles, tokens,
                                                   next_chunks)
                    ELSE /\ ~(/\ ~include_dotfiles
                              /\ token[1] # "."
                              /\ StartsWithDot(chunk))
                         /\ FnMatch(chunk, token)
                         /\ glob_match_internal(include_dotfiles, next_tokens,
                                                next_chunks)

glob_match(pattern, path, include_dotfiles) ==
    glob_match_internal(include_dotfiles, SplitPath(pattern), SplitPath(path))

\* The sequences of 1 to n elements of S.
SeqsUpTo(S, n) == UNION {[1..k -> S] : k \in 1..n}

StarPy == <<"*", ".", "p", "y">>
APy == <<"a", ".", "p", "y">>
DotAPy == <<".">> \o APy

MatchTokens ==
    {StarStar, StarPy, <<"?">>, <<"a">>, <<"[", "!", "a", "]">>, <<".", "*">>,
     <<>>}
MatchChunks == {<<>>, <<"a">>, <<"b">>, <<"c">>, APy, DotAPy}

\* A call of glob_match.
CallGlobMatch ==
    /\ ~matchResult.returned
    /\ matchResult' = [returned |-> TRUE,
                       value |-> glob_match(matchArgs.pattern, matchArgs.path,
                                            matchArgs.include_dotfiles)]
    /\ UNCHANGED <<matchArgs, procVars, fsVars, walkVars, globVars>>

InitMatch ==
    /\ InitProc /\ implicit = <<>>
    /\ FsIdle /\ WalkIdle /\ GlobIdle
    /\ matchArgs \in [pattern : {JoinPath(ts) : ts \in SeqsUpTo(MatchTokens, MaxTokens)},
                      path : {JoinPath(cs) : cs \in SeqsUpTo(MatchChunks, MaxChunks)},
                      include_dotfiles : BOOLEAN]
    /\ matchResult = [returned |-> FALSE, value |-> FALSE]

NextMatch == CallGlobMatch

SpecMatch == InitMatch /\ [][NextMatch]_vars

(***************************************************************************)
(* glob_walk and glob.  The directory of the build file is the root of the *)
(* tree, and its own path holds no special character.  A path relative to  *)
(* it is the sequence of its names, its string JoinPath of them.           *)
(***************************************************************************)
\* Include patterns of a call, and calls of glob with the same arguments.
MaxIncludes == 2
MaxGlobCalls == 2

Star == <<"*">>

\* The names the system resolves in a path string: "//" counts as "/".
Components(s) == SelectSeq(SplitPath(s), LAMBDA c : c # <<>>)

\* glob.glob1: the names in a directory that match a pattern, hidden ones
\* only for a pattern that starts with ".".
Glob1(dirname, pattern) ==
    {n \in ListDir(base \o dirname) :
        /\ pattern[1] # "." => n[1] # "."
        /\ FnMatch(n, pattern)}

\* glob.glob0 for a basename that is not empty.
Glob0(dirname, basename) ==
    IF LExists(base \o dirname \o <<basename>>) THEN {basename} ELSE {}

AnyMagic(comps) == \E i \in 1..Len(comps) : HasMagic(comps[i])

RECURSIVE GlobIglob(_)
\* glob.iglob(os.path.join(root, pattern)) with root cut off the results;
\* comps are the names of pattern.  A directory part with a special
\* character in it is expanded as a pattern itself.
GlobIglob(comps) ==
    LET dirname == Front(comps)
        basename == Last(comps)
    IN IF ~AnyMagic(comps)
       THEN IF LExists(base \o comps) THEN {comps} ELSE {}
       ELSE LET dirs == IF AnyMagic(dirname) THEN GlobIglob(dirname)
                        ELSE {dirname}
            IN UNION {{d \o <<n>> : n \in IF HasMagic(basename)
                                          THEN Glob1(d, basename)
                                          ELSE Glob0(d, basename)} : d \in dirs}

\* The first name after the first that starts with c, 0 when there is none.
FirstLater(comps, c) ==
    LET at == {i \in 2..Len(comps) : comps[i][1] = c}
    IN IF at = {} THEN 0 ELSE CHOOSE i \in at : \A j \in at : i <= j

\* special_rules_for_dots: the first rule that changes the pattern, applied
\* once; the pattern itself when none does.
SpecialForDots(comps) ==
    IF comps[1][1] = "*" THEN [comps EXCEPT ![1] = <<".">> \o @]
    ELSE IF comps[1][1] = "?" THEN [comps EXCEPT ![1] = <<".">> \o Tail(@)]
    ELSE IF FirstLater(comps, "*") # 0
    THEN [comps EXCEPT ![FirstLater(comps, "*")] = <<".">> \o @]
    ELSE IF FirstLater(comps, "?") # 0
    THEN [comps EXCEPT ![FirstLater(comps, "?")] = <<".">> \o Tail(@)]
    ELSE comps

\* glob_walk.iglob: what the for loops over it get, each path once.
Iglob(comps) ==
    GlobIglob(comps)
    \cup IF globArgs.include_dotfiles /\ SpecialForDots(comps) # comps
         THEN GlobIglob(SpecialForDots(comps))
         ELSE {}

\* glob_walk.isresult; the path None is <<>>.
IsResult(path) == path # <<>> /\ IsFile(base \o path)

\* glob_walk.normpath_join.
NormpathJoin(normpath, element) ==
    LET newpath == normpath \o <<"/">> \o element IN
    IF IsLink(Components(newpath)) THEN JoinNames(RealPath(Components(newpath)))
    ELSE newpath

\* child[path_and_sep_len:]
Element(path, child) ==
    Drop(JoinPath(child), IF path = <<>> THEN 0 ELSE Len(JoinPath(path)) + 1)

\* A call of glob_walk_internal that is past the visited test: zero is
\* whether its call for '**' matching nothing is still to make, pending the
\* children its for loop has still to take.
GlobFrame(tokens, path, normpath) ==
    [tokens |-> tokens, path |-> path, normpath |-> normpath,
     zero |-> Head(tokens) = StarStar /\ Tail(tokens) # <<>>,
     pending |-> Iglob(path \o <<IF Head(tokens) = StarStar THEN Star
                                 ELSE Head(tokens)>>)]

RECURSIVE GlobUnwind(_)
\* The calls with nothing left to do return.
GlobUnwind(stack) ==
    IF stack = <<>> THEN stack
    ELSE IF ~Last(stack).zero /\ Last(stack).pending = {}
    THEN GlobUnwind(Front(stack))
    ELSE stack

\* Whether a call in progress expanded the same tokens at a path with the
\* same canonical form as path: the (remaining tokens, canonical path) state
\* is entered again below itself.
Reentered(tokens, path, stack) ==
    \E k \in 1..Len(stack) :
        /\ stack[k].tokens = tokens
        /\ RealPath(base \o stack[k].path) = RealPath(base \o path)

\* The end of glob: the paths no exclude pattern matches, sorted.
GlobReturn(ps) ==
    SortPaths({q \in ps :
        ~\E i \in 1..Len(globArgs.excludes) :
            glob_match(globArgs.excludes[i], q, globArgs.include_dotfiles)})

\* glob takes what the walk has yielded and goes on: with the walk, with the
\* next include pattern, or to its end.
GlobContinue(stack, out) ==
    /\ globStack' = stack
    /\ walkOut' = out
    /\ paths' = paths \cup out
    /\ IF stack # <<>>
       THEN globState' = "walking" /\ UNCHANGED <<globIndex, globResult>>
       ELSE IF globIndex < Len(globArgs.includes)
       THEN /\ globState' = "walk"
            /\ globIndex' = globIndex + 1
            /\ UNCHANGED globResult
       ELSE /\ globState' = "done"
            /\ globResult' = GlobReturn(paths \cup out)
            /\ UNCHANGED globIndex

\* A call of glob_walk_internal, up to its first for loop.
GlobEnter(tokens, path, normpath, stack, vis, out) ==
    IF tokens = <<>>
    THEN /\ visited' = vis
         /\ GlobContinue(GlobUnwind(stack),
                         out \cup IF IsResult(path) THEN {JoinPath(path)} ELSE {})
    ELSE LET last == Head(tokens) = StarStar /\ Tail(tokens) = <<>>
             out1 == out \cup IF last /\ IsResult(path) THEN {JoinPath(path)}
                              ELSE {}
             key == <<tokens, normpath>>
         IN IF key \in vis
            THEN /\ visited' = vis
                 /\ GlobContinue(GlobUnwind(stack), out1)
            ELSE IF Reentered(tokens, path, stack)
            THEN /\ globState' = "reentered"
                 /\ UNCHANGED <<globStack, visited, walkOut, paths, globIndex,
                                globResult>>
            ELSE /\ visited' = vis \cup {key}
                 /\ GlobContinue(
                        GlobUnwind(Append(stack, GlobFrame(tokens, path, normpath))),
                        out1)

\* glob(includes, excludes, include_dotfiles), called in a context of some
\* type; a later call has the same patterns, in any order.
CallGlob ==
    /\ \/ globState = "start"
       \/ globState = "done" /\ Len(globEarlier) + 1 < MaxGlobCalls
    /\ \E type \in {BUILD_FILE, INCLUDE} :
          IF type # BUILD_FILE
          THEN /\ globState' = "error"
               /\ UNCHANGED <<globArgs, globIndex, globStack, visited, walkOut,
                              paths, globResult, globEarlier>>
          ELSE /\ globState' = "walk"
               /\ globIndex' = 1
               /\ globStack' = <<>>
               /\ visited' = {}
               /\ walkOut' = {}
               /\ paths' = {}
               /\ globResult' = <<>>
               /\ globEarlier' = IF globState = "done"
                                 THEN Append(globEarlier, globResult)
                                 ELSE globEarlier
               /\ \E f \in Permutations(1..Len(globArgs.includes)) :
                     globArgs' = [globArgs EXCEPT !.includes =
                         [i \in 1..Len(globArgs.includes) |-> globArgs.includes[f[i]]]]
    /\ UNCHANGED <<procVars, fsVars, walkVars, matchVars>>

\* glob_walk(pattern, search_base, include_dotfiles) for the next include
\* pattern, and the first call of glob_walk_internal.
GlobWalkStart ==
    /\ globState = "walk"
    /\ LET tokens == SplitPath(globArgs.includes[globIndex]) IN
       IF ~WellFormedTokens(tokens)
       THEN /\ globState' = "error"
            /\ UNCHANGED <<globIndex, globStack, visited, walkOut, paths,
                           globResult>>
       ELSE GlobEnter(tokens, <<>>, JoinNames(RealPath(base)), <<>>, {}, {})
    /\ UNCHANGED <<globArgs, globEarlier, procVars, fsVars, walkVars, matchVars>>

\* The call for '**' matching no segment: the next tokens at the same path.
GlobWalkZero ==
    /\ globState = "walking"
    /\ Last(globStack).zero
    /\ LET top == Last(globStack) IN
       GlobEnter(Tail(top.tokens), top.path, top.normpath,
                 [globStack EXCEPT ![Len(globStack)].zero = FALSE],
                 visited, walkOut)
    /\ UNCHANGED <<globArgs, globEarlier, procVars, fsVars, walkVars, matchVars>>

\* The call for the next child of a for loop, in whatever order iglob gives
\* the children.
GlobWalkChild ==
    /\ globState = "walking"
    /\ ~Last(globStack).zero
    /\ \E child \in Last(globStack).pending :
          LET top == Last(globStack)
              stack == [globStack EXCEPT ![Len(globStack)].pending = @ \ {child}]
              normpath == NormpathJoin(top.normpath, Element(top.path, child))
          IN IF Head(top.tokens) = StarStar
             THEN GlobEnter(top.tokens, child, normpath, stack, visited, walkOut)
             ELSE IF Tail(top.tokens) # <<>>
             THEN GlobEnter(Tail(top.tokens), child, normpath, stack, visited,
                            walkOut)
             ELSE GlobEnter(<<>>, child, <<>>, stack, visited, walkOut)
    /\ UNCHANGED <<globArgs, globEarlier, procVars, fsVars, walkVars, matchVars>>

GlobNames == {NameA, NameB, Star, NameHidden}
GlobPatterns ==
    {StarStar, Star, JoinPath(<<StarStar, NameA>>),
     JoinPath(<< <<"[", "*", "]">>, NameA >>), JoinPath(<<NameA, <<>> >>)}
GlobIncludes ==
    {<<p>> : p \in GlobPatterns}
    \cup SeqsUpTo({Star, JoinPath(<<StarStar, NameA>>)}, MaxIncludes)

InitGlob ==
    /\ InitProc /\ implicit = <<>>
    /\ WalkIdle /\ MatchIdle
    /\ fs \in Trees(GlobNames, {<<>>, <<NameA>>}, MaxEntries)
    /\ base = <<>>
    /\ globArgs \in [includes : GlobIncludes,
                     excludes : {<<>>, <<NameA>>},
                     include_dotfiles : BOOLEAN]
    /\ globState = "start"
    /\ globIndex = 0
    /\ globStack = <<>>
    /\ visited = {}
    /\ walkOut = {}
    /\ paths = {}
    /\ globResult = <<>>
    /\ globEarlier = <<>>

NextGlob == CallGlob \/ GlobWalkStart \/ GlobWalkZero \/ GlobWalkChild

SpecGlob == InitGlob /\ [][NextGlob]_vars

\* glob on a tree three names deep: plain files and directories only, no
\* name starts with a dot, and a directory may have a name that glob reads
\* as a pattern.
MaxDepth == 3
DeepNames == {NameA, NameB, <<"[", "b", "]">>}

DeepPositions == UNION {[1..k -> DeepNames] : k \in 1..MaxDepth}

\* The positions a shape S can take one more of.
DeepFree(S) == {q \in DeepPositions : Len(q) = 1 \/ Front(q) \in S}

RECURSIVE DeepShapes(_)
\* The sets of at most n positions that hold the parent of each of theirs.
DeepShapes(n) ==
    IF n = 0 THEN {{}}
    ELSE LET smaller == DeepShapes(n - 1) IN
         smaller \cup UNION {{S \cup {pos} : pos \in DeepFree(S)} : S \in smaller}

DeepTrees ==
    UNION {{f \in [S -> {FileEntry, DirEntry}] : WellFormedTree(f)} :
              S \in DeepShapes(MaxEntries) \ {{}}}

DirStarStar == JoinPath(<<NameA, StarStar>>)

InitDeep ==
    /\ InitProc /\ implicit = <<>>
    /\ WalkIdle /\ MatchIdle
    /\ fs \in DeepTrees
    /\ base = <<>>
    /\ globArgs \in [includes : {<<DirStarStar>>, <<JoinPath(<<StarStar, NameA>>)>>},
                     excludes : {<<>>},
                     include_dotfiles : BOOLEAN]
    /\ globState = "start"
    /\ globIndex = 0
    /\ globStack = <<>>
    /\ visited = {}
    /\ walkOut = {}
    /\ paths = {}
    /\ globResult = <<>>
    /\ globEarlier = <<>>

SpecDeep == InitDeep /\ [][NextGlob]_vars

(***************************************************************************)
(* The processor: files that include, set names and fail.                  *)
(***************************************************************************)
Init == InitProc /\ FsIdle /\ WalkIdle /\ MatchIdle /\ GlobIdle

ProcOnly == UNCHANGED <<fsVars, walkVars, matchVars, globVars>>

Next ==
    \/ (\E p \in FilePaths : Process(p)) /\ ProcOnly
    \/ StepImplicit /\ ProcOnly
    \/ ExecInclude(IncludeNames) /\ ProcOnly
    \/ ExecSet({PublicVar}) /\ ProcOnly
    \/ ExecFail /\ ProcOnly
    \/ FinishFile /\ ProcOnly

Spec == Init /\ [][Next]_vars

(***************************************************************************)
(* The processor with the build functions: files that include, declare     *)
(* rules, add dependencies and glob.                                       *)
(***************************************************************************)
InitPrim ==
    InitProc /\ implicit = <<>> /\ FsIdle /\ WalkIdle /\ MatchIdle /\ GlobIdle

NextPrim ==
    \/ (\E p \in FilePaths : Process(p)) /\ ProcOnly
    \/ ExecInclude(IncludeNames) /\ ProcOnly
    \/ ExecRule /\ ProcOnly
    \/ ExecAddDeps /\ ProcOnly
    \/ ExecGlob /\ ProcOnly
    \/ FinishFile /\ ProcOnly

SpecPrim == InitPrim /\ [][NextPrim]_vars

(***************************************************************************)
(* The whole processor: implicit includes, include names with and without  *)
(* the root marker, names bound and called, failures, and the build        *)
(* functions.                                                              *)
(***************************************************************************)
NextFull ==
    \/ (\E p \in FilePaths : Process(p)) /\ ProcOnly
    \/ StepImplicit /\ ProcOnly
    \/ ExecInclude(IncludeNames \cup {BadIncludeName}) /\ ProcOnly
    \/ ExecSet({PublicVar}) /\ ProcOnly
    \/ ExecCall /\ ProcOnly
    \/ ExecFail /\ ProcOnly
    \/ ExecRule /\ ProcOnly
    \/ ExecAddDeps /\ ProcOnly
    \/ ExecGlob /\ ProcOnly
    \/ FinishFile /\ ProcOnly

SpecFull == Init /\ [][NextFull]_vars

(***************************************************************************)
(* The processor and its namespaces: files that include and bind public    *)
(* and private names.                                                      *)
(***************************************************************************)
NextNames ==
    \/ (\E p \in FilePaths : Process(p)) /\ ProcOnly
    \/ StepImplicit /\ ProcOnly
    \/ ExecInclude(IncludeNames) /\ ProcOnly
    \/ ExecSet(VarNames) /\ ProcOnly
    \/ FinishFile /\ ProcOnly

SpecNames == Init /\ [][NextNames]_vars

(***************************************************************************)
(* Claims about the processor.                                             *)
(***************************************************************************)
\* The statement executed by the step, when the step executes one.
StepExecutes(ops) ==
    /\ InBody
    /\ Top.pc <= Len(files'[TopPath])
    /\ files'[TopPath][Top.pc].op \in ops

\* C1, as stated: over any sequence of process() calls and any include
\* graph, the body of the file at a path begins to execute at most once.
C1_BodyExecutedAtMostOnce ==
    \A p \in FilePaths : execStarted[p] <= 1

\* The step enters an evaluation of p: _process passed its cache check,
\* built a context for p and pushed it.
Entered(p) ==
    /\ Len(evals') = Len(evals) + 1
    /\ evals'[Len(evals')].path = p

InProgress(p) ==
    \E i \in 1..Len(callStack) : evals[callStack[i].ev].path = p

\* C1, amended: once the result of a path is in the cache no request for the
\* path is evaluated: no context is pushed for it, and its body begins again
\* only in an evaluation that was entered before the result was stored and
\* is still in progress.
C1_NoEvaluationOnceCached ==
    [][\A p \in FilePaths :
          cache[p] # 0 =>
             /\ ~Entered(p)
             /\ execStarted'[p] # execStarted[p] => InProgress(p)]_vars

\* A file began twice (it includes itself, or it failed and was asked for
\* again), and a file that ran to its end was asked for again.
C1_Witness ==
    /\ \E p \in FilePaths : execStarted[p] >= 2
    /\ \E k \in 1..Len(log) : log[k].hit /\ execDone[log[k].inc] = 1

\* An include returns into the body or the implicit includes of a build
\* file other than the included file itself.
FromBuildFile(e) == evals[e.byEv].type = BUILD_FILE /\ e.by # e.inc

\* C2: when an include of a path returns to a build file after an include of
\* the same path returned to another build file, it is served from the
\* cache: the step pushes no context and starts no execution of the path,
\* leaves the cache as it is, and hands over the evaluation the cache holds,
\* which is the one the first build file was handed, with the same public
\* bindings.
C2_SecondInclusionFromCache ==
    [][(Len(log') = Len(log) + 1 /\ FromBuildFile(log'[Len(log')]))
       => LET e == log'[Len(log')] IN
          \A k \in 1..Len(log) :
             (log[k].inc = e.inc /\ FromBuildFile(log[k]) /\ log[k].by # e.by)
             => /\ envStack' = envStack
                /\ Len(evals') = Len(evals)
                /\ execStarted'[e.inc] = execStarted[e.inc]
                /\ cache' = cache
                /\ cache[e.inc] = e.ev
                /\ log[k].ev = e.ev
                /\ log[k].bindings = e.bindings]_vars

\* Two build files were processed one after the other, both included the
\* same file, and both received a binding it made.
C2_Witness ==
    /\ calls = 2
    /\ outcome.kind = "ok"
    /\ \E i, j \in 1..Len(log) :
          /\ i < j
          /\ log[i].inc = log[j].inc
          /\ log[i].by # log[j].by
          /\ FromBuildFile(log[i]) /\ FromBuildFile(log[j])
          /\ cache[log[i].by] = log[i].byEv
          /\ cache[log[j].by] = log[j].byEv
          /\ log[j].bindings[PublicVar] = FileValue(log[j].inc)

\* C10: a call of glob, add_deps or a rule function made while the build
\* functions are bound to an IncludeContext fails on its type assertion and
\* changes no context; and no step taken while the body of an include
\* executes changes the rules of any context.
C10_IncludeCannotUseBuildFunctions ==
    [][/\ (StepExecutes({"glob", "add_deps", "rule"}) /\ BoundEnv.type = INCLUDE)
          => /\ outcome' = [kind |-> "error", err |-> "AssertionError", ev |-> 0]
             /\ callStack' = <<>>
             /\ evals' = evals
             /\ cache' = cache
       /\ (InBody /\ TopEval.type = INCLUDE)
          => \A id \in 1..Len(evals) : evals'[id].rules = evals[id].rules]_vars

\* A build function was called from the body of an include, which was being
\* evaluated for a build file that had declared a rule: the call failed.
C10_Witness ==
    /\ outcome.err = "AssertionError"
    /\ Len(envStack) >= 2
    /\ evals[envStack[Len(envStack)]].type = INCLUDE
    /\ \E r \in RuleNames : evals[envStack[1]].rules[r].present

\* The statement the step executes, when the step executes one.
StepStmt == files'[TopPath][Top.pc]

\* C11: rule names are unique in one registry.  A rule function called by a
\* build file with a name the registry holds fails with a ValueError, the
\* registry keeps the first dictionary as it was, and the rejected
\* dictionary is not stored and gets no buck.base_path entry; a rule without
\* a name fails with a ValueError and leaves the registry as it was; a rule
\* with a new name is stored under that name, stamped, and changes no other
\* name of the registry.
C11_RuleNamesUnique ==
    [][(StepExecutes({"rule"}) /\ BoundEnv.type = BUILD_FILE)
       => LET name == StepStmt.arg
              rule == RuleDict(StepStmt.flag)
          IN
          IF name = <<>> \/ BoundEnv.rules[name].present
          THEN /\ outcome' = [kind |-> "error", err |-> "ValueError", ev |-> 0]
               /\ returned' = <<>>
               /\ evals' = evals
               /\ ruleArg' = [name |-> name, dict |-> rule]
               /\ ~ruleArg'.dict.stamped
          ELSE /\ outcome' = outcome
               /\ evals'[funcEnv].rules[name] =
                    [rule EXCEPT !.stamped = TRUE,
                                 !.base_path = evals[funcEnv].base_path]
               /\ \A id \in 1..Len(evals), n \in RuleNames :
                     (id # funcEnv \/ n # name)
                     => evals'[id].rules[n] = evals[id].rules[n]]_vars

\* A build file declared a rule with a 'deps' list and then a rule of the
\* same name without one: the second call failed, and the registry holds
\* the first dictionary.
C11_Witness ==
    /\ calls = 1
    /\ outcome.err = "ValueError"
    /\ \E p \in FilePaths, n \in RuleNames :
          /\ files[p] = <<Stmt("rule", n, "list"), Stmt("rule", n, "absent")>>
          /\ evals[1].path = p
          /\ evals[1].rules[n].depsKind = "list"
          /\ evals[1].rules[n].stamped
          /\ ruleArg = [name |-> n, dict |-> RuleDict("absent")]

\* C12: an add_deps(name, extra) that returns sets the 'deps' of the rule
\* name to the list it had followed by extra, in order and keeping
\* duplicates; it changes no other entry of that dictionary and no other
\* dictionary, and neither adds a name to the registry nor removes one.
C12_AddDepsAppends ==
    [][(StepExecutes({"add_deps"}) /\ callStack' # <<>>)
       => LET name == StepStmt.arg
              old == evals[funcEnv].rules[name]
          IN
          /\ old.present /\ old.depsKind = "list"
          /\ evals'[funcEnv].rules[name] = [old EXCEPT !.deps = old.deps \o ExtraDeps]
          /\ \A id \in 1..Len(evals), n \in RuleNames :
                /\ evals'[id].rules[n].present = evals[id].rules[n].present
                /\ (id # funcEnv \/ n # name)
                   => evals'[id].rules[n] = evals[id].rules[n]]_vars

\* A rule declared with the dependencies ['x'] was given ['y'] twice: its
\* list is ['x', 'y', 'y'].
C12_Witness ==
    /\ outcome.kind = "ok"
    /\ \E n \in RuleNames :
          /\ evals[outcome.ev].rules[n].deps = <<"x", "y", "y">>
          /\ \E i \in 1..Len(returned) :
                returned[i].key = n /\ returned[i].dict.deps = <<"x", "y", "y">>

Declared(p) ==
    LET rs == SelectSeq(files[p], LAMBDA s : s.op = "rule")
    IN [i \in 1..Len(rs) |-> rs[i].arg]

\* C14: the rule dictionaries process returns come in the order in which
\* the build file declared them.
C14_DeclarationOrder ==
    outcome.kind = "ok"
    => LET decl == Declared(evals[outcome.ev].path) IN
       /\ Len(returned) = Len(decl) + 1
       /\ \A i \in 1..Len(decl) : returned[i].key = decl[i]

\* The evaluations whose include returned to the evaluation e, and the
\* evaluations reached from a set of evaluations through such returns.
IncludedBy(e) == {log[k].ev : k \in {j \in 1..Len(log) : log[j].byEv = e}}

RECURSIVE ReachedFrom(_, _)
ReachedFrom(frontier, seen) ==
    IF frontier \subseteq seen THEN seen
    ELSE ReachedFrom(UNION {IncludedBy(e) : e \in frontier} \ (seen \cup frontier),
                     seen \cup frontier)

\* The paths of the files evaluated, in this call or an earlier one, for the
\* includes of the evaluation e and for their includes in turn.
IncludeClosure(e) ==
    {evals[i].path : i \in ReachedFrom(IncludedBy(e), {})}

\* C15: the list process(path) returns holds exactly one manifest and holds
\* it last; the manifest's list starts with path and goes on with the path
\* of every file evaluated for an include of the build file, explicit or
\* implicit, direct or through other includes, each once and in ascending
\* order; a call served from the cache returns such a list too.
C15_ManifestLast ==
    outcome.kind = "ok"
    => LET n == Len(returned)
           m == returned[n].includes
       IN
       /\ n >= 1
       /\ returned[n].key = ManifestKey
       /\ \A i \in 1..(n - 1) : returned[i].key \in RuleNames
       /\ m[1] = evals[outcome.ev].path
       /\ \A i, j \in 2..Len(m) : i < j => StrLess(m[i], m[j])
       /\ {m[i] : i \in 2..Len(m)} = IncludeClosure(outcome.ev)

\* A second call was served from the cache and returned a rule and then a
\* manifest of the build file and two includes.
C15_Witness ==
    /\ calls = 2
    /\ outcome.kind = "ok"
    /\ Cardinality({i \in 1..Len(evals) : evals[i].type = BUILD_FILE}) = 1
    /\ Len(returned) = 2
    /\ returned[1].key \in RuleNames
    /\ Len(returned[2].includes) = 3

\* C16: when an include of a file B returns to an evaluation A, from the
\* cache or from an evaluation just ended, the include set of A holds the
\* path of B and every path of the include set of B; and the include set of
\* an evaluation that ended holds the paths of the files evaluated for its
\* includes and for theirs in turn, and no other.
C16_IncludesPropagate ==
    /\ [][Len(log') = Len(log) + 1
          => LET e == log'[Len(log')] IN
             ({e.inc} \cup evals'[e.ev].includes) \subseteq evals'[e.byEv].includes]_vars
    /\ [](\A p \in FilePaths :
             cache[p] # 0 => evals[cache[p]].includes = IncludeClosure(cache[p]))

\* A build file ended whose include set holds a file it included and a file
\* only that file included; the second was taken from the cache when the
\* first asked for it.
C16_Witness ==
    /\ outcome.kind = "ok"
    /\ \E i, j \in 1..Len(log) :
          /\ log[j].byEv = outcome.ev
          /\ log[i].byEv = log[j].ev
          /\ log[i].hit
          /\ log[i].inc # log[j].inc
          /\ ~\E k \in 1..Len(log) : log[k].byEv = outcome.ev /\ log[k].inc = log[i].inc
          /\ evals[outcome.ev].includes = {log[i].inc, log[j].inc}

\* A process call for the build file p failed while it evaluated p or a file
\* p included: an evaluation of p as a build file is neither in progress nor
\* the one the cache holds for p.
FailedBuild(p) ==
    /\ callStack = <<>>
    /\ \E i \in 1..Len(evals) :
          evals[i].type = BUILD_FILE /\ evals[i].path = p /\ cache[p] # i

\* C17: a failure while a file is evaluated ends the process call: every
\* frame is left, no list is returned, the cache is left as it was and holds
\* nothing for the file or for any file that was including it; the cache
\* still holds nothing for the build file when process is called again, and
\* a call that finds nothing in the cache evaluates the file in a new context
\* with no rule and no include.
C17_FailureStoresNothing ==
    /\ [][(callStack # <<>> /\ outcome'.kind = "error")
          => /\ callStack' = <<>>
             /\ returned' = <<>>
             /\ cache' = cache
             /\ \A i \in 1..Len(callStack) :
                   cache'[evals[callStack[i].ev].path] = 0]_vars
    /\ [](\A p \in FilePaths : FailedBuild(p) => cache[p] = 0)
    /\ [][(callStack = <<>> /\ callStack' # <<>>)
          => LET new == evals'[Len(evals')] IN
             /\ Len(evals') = Len(evals) + 1
             /\ callStack' = <<[ev |-> Len(evals'), ii |-> 1, pc |-> 1]>>
             /\ new.type = BUILD_FILE
             /\ new.includes = {}
             /\ \A r \in RuleNames : new.rules[r] = NoRule
             /\ new.ns = DefaultGlobals]_vars

\* C18: include_defs(name) with a name that does not begin with // fails
\* with a ValueError: no file is evaluated or taken from the cache, and the
\* cache, the context stack and every context, the include set of the caller
\* among them, stay as they were.  With a name that begins with // the file
\* asked for is the one at the name without its first two characters, under
\* the project root: it is the file the step enters or takes from the cache,
\* unless the nesting of includes is at its limit.
C18_IncludeNames ==
    [][StepExecutes({"include"})
       => LET name == StepStmt.arg IN
          IF SubSeq(name, 1, 2) # <<"/", "/">>
          THEN /\ outcome' = [kind |-> "error", err |-> "ValueError", ev |-> 0]
               /\ callStack' = <<>>
               /\ evals' = evals
               /\ cache' = cache
               /\ envStack' = envStack
               /\ execStarted' = execStarted
               /\ log' = log
          ELSE LET path == SubSeq(name, 3, Len(name)) IN
               \/ Entered(path) /\ evals'[Len(evals')].type = INCLUDE
               \/ /\ Len(log') = Len(log) + 1
                  /\ log'[Len(log')].inc = path
                  /\ log'[Len(log')].hit
                  /\ evals' = Received(evals, Top.ev, Top.ev, path, cache[path])
               \/ outcome' = [kind |-> "error", err |-> "RuntimeError", ev |-> 0]]_vars

\* A build file included a file and then called include_defs with a name
\* without //: the call failed, and the include set of the build file holds
\* the first file alone.
C18_Witness ==
    /\ outcome.err = "ValueError"
    /\ \E p \in FilePaths :
          /\ Len(files[p]) = 2
          /\ files[p][1].op = "include"
          /\ files[p][2] = Stmt("include", BadIncludeName, NoFlag)
          /\ evals[1].path = p
          /\ evals[1].includes = {GetIncludePath(files[p][1].arg)}
          /\ cache[GetIncludePath(BadIncludeName)] = 0

\* C19: every rule dictionary process(path) returns has a buck.base_path
\* entry, and its value is the base path of the build file at path: the
\* path without the name of the build file.  It is so for a rule declared
\* by a function that an included file defined and the build file called.
C19_Provenance ==
    outcome.kind = "ok"
    => LET path == returned[Len(returned)].includes[1] IN
       \A i \in 1..(Len(returned) - 1) :
          /\ returned[i].dict.present
          /\ returned[i].dict.stamped
          /\ returned[i].dict.base_path = SubSeq(path, 1, Len(path) - 5)

\* The build file a/BUCK included d and called the function d had bound to
\* x, which declared a rule: process returned the rule with the base path a.
C19_Witness ==
    /\ outcome.kind = "ok"
    /\ evals[outcome.ev].path = SubBuck
    /\ evals[outcome.ev].ns[PublicVar] = FileValue(Defs)
    /\ \E n \in RuleNames :
          /\ files[SubBuck] = <<Stmt("include", RootMarker \o Defs, NoFlag),
                                Stmt("call", n, NoFlag)>>
          /\ returned[1].key = n
          /\ returned[1].dict.base_path = <<"a">>

\* C20: while a statement of a file's body is to execute, the context the
\* build functions are bound to is the top of the context stack, and it is
\* the context of the file whose body executes; so it is after an include
\* returned into the body, from an evaluation or from the cache.
C20_BoundToExecutingFile ==
    InBody => /\ envStack # <<>>
              /\ funcEnv = Last(envStack)
              /\ Last(envStack) = Top.ev

\* A first call failed and left two contexts on the stack; in a second call
\* an include was evaluated and returned into the body of the build file,
\* whose context is on top of the stack and bound again.
C20_Witness ==
    /\ calls = 2
    /\ Len(callStack) = 1
    /\ InBody
    /\ Len(envStack) = 3
    /\ log # <<>>
    /\ ~log[Len(log)].hit
    /\ log[Len(log)].byEv = Top.ev
    /\ funcEnv = Top.ev
    /\ Top.pc = 2

\* C21: when the context stack is empty the build functions are bound to no
\* context; after a process call returned, they are not bound to the context
\* of the file it processed.
C21_UnboundWhenStackEmpty ==
    /\ envStack = <<>> => funcEnv = 0
    /\ (callStack = <<>> /\ outcome.kind = "ok") => funcEnv # outcome.ev

\* C22: the context stack holds the contexts of the evaluations in
\* progress and no other, the innermost on top; it is empty whenever no
\* process call is in progress, after a call that failed too.
C22_StackMirrorsEvaluations ==
    /\ Len(envStack) = Len(callStack)
    /\ \A i \in 1..Len(callStack) : envStack[i] = callStack[i].ev

\* C23: when the first statement of the body of a file is to execute, build
\* file or include, every implicit include of the run has been evaluated to
\* its end, the include set of the file holds its path and the paths it
\* included, and every public name it binds is bound in the file's
\* namespace.
C23_ImplicitIncludesFirst ==
    (InBody /\ Top.pc = 1)
    => \A k \in 1..Len(implicit) :
          LET p == GetIncludePath(implicit[k])
              c == cache[p]
          IN
          /\ c # 0
          /\ ({p} \cup evals[c].includes) \subseteq TopEval.includes
          /\ \A n \in NsNames :
                PublicBindings(evals[c].ns)[n] # Undef => TopEval.ns[n] # Undef

\* C24: when an include of a file B returns to an evaluation A, every name
\* that B's namespace binds, that does not begin with '_' and is not
\* include_defs, is bound in A's namespace to B's value, whatever A bound
\* it to before and whether B bound it itself or got it from an include of
\* its own; every other name of A's namespace, any name that begins with
\* '_' and include_defs among them, is bound as it was.
C24_MergeOfPublicNames ==
    [][Len(log') = Len(log) + 1
       => LET e == log'[Len(log')]
              A == evals[e.byEv].ns
              B == evals[e.ev].ns
          IN
          \A n \in NsNames :
             evals'[e.byEv].ns[n] =
                IF B[n] # Undef /\ n[1] # "_" /\ n # IncludeDefsName
                THEN B[n]
                ELSE A[n]]_vars

\* A build file included a file that had included another: it got the
\* binding of x the innermost file made, through the file in between.
C24_Witness ==
    /\ outcome.kind = "ok"
    /\ \E i, j \in 1..Len(log) :
          /\ log[j].byEv = outcome.ev
          /\ log[i].byEv = log[j].ev
          /\ log[i].inc # log[j].inc
          /\ ~\E k \in 1..Len(log) : log[k].byEv = outcome.ev /\ log[k].inc = log[i].inc
          /\ evals[log[j].ev].ns[PublicVar] = FileValue(log[i].inc)
          /\ evals[outcome.ev].ns[PublicVar] = FileValue(log[i].inc)

\* C26: the context process(path) turns into its list is a BuildFileContext
\* made for path, with a rule registry and the base path of the build file,
\* also when the path was evaluated as an include before; and the context an
\* include hands to its includer is an IncludeContext, also when the path
\* was evaluated as a build file before.
C26_ContextOfRequestedKind ==
    /\ outcome.err # "AttributeError"
    /\ outcome.kind = "ok"
       => /\ evals[outcome.ev].type = BUILD_FILE
          /\ evals[outcome.ev].base_path = BuildBasePath(evals[outcome.ev].path)
    /\ \A k \in 1..Len(log) : evals[log[k].ev].type = INCLUDE

C5_NoCanonicalDirectoryTwice ==
    \A i \in 1..Len(walkYielded) : \A j \in 1..Len(walkYielded) :
        RealPath(walkYielded[i]) = RealPath(walkYielded[j]) => i = j

(***************************************************************************)
(* Claims about glob_match.                                                *)
(***************************************************************************)
MatchTokensOfCall == SplitPath(matchArgs.pattern)
MatchChunksOfCall == SplitPath(matchArgs.path)
MatchOfRest(tokens, chunks) ==
    glob_match_internal(matchArgs.include_dotfiles, tokens, chunks)

\* C7: the token '**' matches zero or more whole segments.  A pattern of
\* nothing but '**' matches the empty path; '**' matches '' and 'a/b/c'; and
\* a pattern that begins with '**' matches a path exactly when the rest of
\* the pattern matches the path as it is, or the first segment can be
\* consumed (without include_dotfiles it does not start with '.') and the
\* same pattern matches the rest of the path.
C7_StarStarMatchesSegments ==
    LET tokens == MatchTokensOfCall
        chunks == MatchChunksOfCall
        dot == matchArgs.include_dotfiles
    IN matchResult.returned =>
        /\ (\A i \in 1..Len(tokens) : tokens[i] = StarStar) =>
              /\ MatchOfRest(tokens, <<>>)
              /\ matchArgs.path = <<>> => matchResult.value
        /\ (/\ matchArgs.pattern = StarStar
            /\ matchArgs.path = JoinPath(<< <<"a">>, <<"b">>, <<"c">> >>))
              => matchResult.value
        /\ Head(tokens) = StarStar =>
              (matchResult.value <=>
                 \/ MatchOfRest(Tail(tokens), chunks)
                 \/ /\ dot \/ Head(chunks) = <<>> \/ Head(chunks)[1] # "."
                    /\ MatchOfRest(tokens, Tail(chunks)))

\* '**/*.py' matches 'a/b/a.py': '**' consumes two segments.
C7_Witness ==
    /\ matchResult.returned
    /\ matchArgs.pattern = JoinPath(<<StarStar, StarPy>>)
    /\ matchArgs.path = JoinPath(<< <<"a">>, <<"b">>, APy >>)
    /\ matchResult.value

\* C8: a wildcard token other than '**' matches a segment exactly when the
\* segment matches it as a shell pattern and, without include_dotfiles and
\* with a token that does not start with '.', the segment does not start
\* with '.'; '*.py' matches 'a.py', and matches '.a.py' only with
\* include_dotfiles.  A token with no special character matches the
\* identical segment only.
C8_WildcardAndLiteralTokens ==
    LET tokens == MatchTokensOfCall
        chunks == MatchChunksOfCall
        dot == matchArgs.include_dotfiles
        token == Head(tokens)
        chunk == Head(chunks)
        special == \E i \in 1..Len(token) : token[i] \in {"*", "?", "["}
        segment == IF special
                   THEN /\ FnMatch(chunk, token)
                        /\ (~dot /\ token[1] # ".") =>
                              (chunk = <<>> \/ chunk[1] # ".")
                   ELSE token = chunk
    IN matchResult.returned =>
        /\ token # StarStar =>
              (matchResult.value <=>
                 segment /\ MatchOfRest(Tail(tokens), Tail(chunks)))
        /\ (matchArgs.pattern = StarPy /\ matchArgs.path = APy)
              => matchResult.value
        /\ (matchArgs.pattern = StarPy /\ matchArgs.path = DotAPy)
              => (matchResult.value <=> dot)

\* '*.py' matches '.a.py' with include_dotfiles.
C8_Witness ==
    /\ matchResult.returned
    /\ matchArgs.pattern = StarPy
    /\ matchArgs.path = DotAPy
    /\ matchArgs.include_dotfiles
    /\ matchResult.value

(***************************************************************************)
(* Claims about glob_walk and glob.                                        *)
(***************************************************************************)
\* C3: glob_walk terminates on every finite tree whatever its symlinks, and
\* expands no (remaining tokens, canonical path) state more than once: no
\* call expands such a state below a call that is expanding it.
C3_NoStateExpandedTwice == globState # "reentered"

\* C6: every path glob_walk yields for a pattern satisfies glob_match for
\* the pattern, with the same include_dotfiles.
C6_WalkResultsMatch ==
    globState \in {"walking", "walk", "done"} =>
        \A q \in walkOut :
            glob_match(globArgs.includes[IF globState = "walk" THEN globIndex - 1
                                         ELSE globIndex],
                       q, globArgs.include_dotfiles)

\* C9: the list glob returns is the same whatever order the file system
\* lists directory entries in and whatever order the include patterns have:
\* two calls with the same patterns on the same tree return the same list.
C9_ResultIndependentOfOrder ==
    globState = "done" =>
        \A i \in 1..Len(globEarlier) : globEarlier[i] = globResult

\* C25: a pattern with an empty segment is rejected by glob_walk and by
\* glob_match: no walk is begun for such an include pattern of glob, and a
\* glob_match that returned a result was given a pattern without one.
C25_EmptySegmentRejected ==
    /\ globState \in {"walking", "done"}
       => \A i \in 1..Len(globArgs.includes) :
             (i <= globIndex \/ globState = "done")
             => WellFormedTokens(SplitPath(globArgs.includes[i]))
    /\ matchResult.returned => WellFormedTokens(MatchTokensOfCall)

\* C27: glob_walk yields only paths of plain files, never of directories;
\* and once the walk for the pattern 'a/**' is over, on a tree without links
\* and without names that start with a dot, every plain file inside the
\* directory a, directly or at any depth below it, has been yielded.
C27_TrailingStarStar ==
    /\ globState \in {"walking", "walk", "done"}
       => \A q \in walkOut : IsFile(base \o Components(q))
    /\ (/\ globState = "done"
        /\ globArgs.includes = <<DirStarStar>>
        /\ \A pos \in DOMAIN fs :
              /\ fs[pos].kind # "link"
              /\ \A i \in 1..Len(pos) : pos[i][1] # ".")
       => \A pos \in DOMAIN fs :
             (fs[pos].kind = "file" /\ Len(pos) > 1 /\ pos[1] = NameA)
             => JoinPath(pos) \in walkOut

====
